---- MODULE Spec2Model ----
(***************************************************************************)
(* Chestia recipe resolution: the session state machine of the backend     *)
(* (validate -> exact cache -> semantic cache -> web search -> generate -> *)
(* review -> approval loop), the recipe store written by /feedback, and    *)
(* the log store.  The backend sources (graph.py, routes.py, database.py)  *)
(* are not part of the tree; the machine follows the resolution design     *)
(* and the documents under docs/ and README.md.                            *)
(***************************************************************************)
EXTENDS Integers, Sequences, FiniteSets, TLC

\* ------------------------------------------------------------------ bounds
MaxSessions == 2
MaxRecords == 2
MaxWriters == 2
MaxLogs == 2

\* ------------------------------------------------------ program constants
MaxExtras == 2
MaxIterations == 3
MinIngredients == 3
SimilarityThreshold == 85

\* --------------------------------------------------------------- universe
DefaultPantry == {"salt", "water", "oil", "olive oil"}
ExtraPool == {"butter", "cheese", "sugar"}
Hallucinated == "truffle"
Difficulties == {"easy", "intermediate", "hard"}
Languages == {"en", "tr"}

\* /generate requests a client may send: valid lists, the same ingredients
\* written differently, another difficulty, another language, and the
\* invalid shapes
GenerateRequests ==
    { [ingredients |-> <<"Egg", "milk", "flour", "salt">>, difficulty |-> "easy", lang |-> "en"],
      [ingredients |-> <<"flour", "milk", "egg", "egg">>, difficulty |-> "easy", lang |-> "en"],
      [ingredients |-> <<"egg", "milk", "flour", "rice">>, difficulty |-> "easy", lang |-> "en"],
      [ingredients |-> <<"Egg", "milk", "flour", "salt">>, difficulty |-> "hard", lang |-> "tr"],
      [ingredients |-> <<"salt", "water", "oil">>, difficulty |-> "easy", lang |-> "en"],
      [ingredients |-> <<"salt", "water", "olive oil">>, difficulty |-> "intermediate", lang |-> "tr"],
      [ingredients |-> <<"oil", "salt", "water", "salt">>, difficulty |-> "hard", lang |-> "tr"],
      [ingredients |-> <<"pasta">>, difficulty |-> "easy", lang |-> "en"],
      [ingredients |-> <<"egg", "milk", "fl<our">>, difficulty |-> "easy", lang |-> "tr"],
      [ingredients |-> <<"Egg", "milk", "flour", "salt">>, difficulty |-> "expert", lang |-> "en"] }

\* /generate requests for the ingredients flour, milk, egg: rewritten, and
\* with another difficulty, language or ingredient
RewrittenRequests ==
    { [ingredients |-> <<"EGG", "flour", "Milk", "milk">>, difficulty |-> "easy", lang |-> "en"],
      [ingredients |-> <<"milk", "Egg", "flour", "egg">>, difficulty |-> "easy", lang |-> "en"],
      [ingredients |-> <<"flour", "milk", "egg", "egg">>, difficulty |-> "hard", lang |-> "en"],
      [ingredients |-> <<"flour", "milk", "egg", "egg">>, difficulty |-> "easy", lang |-> "tr"],
      [ingredients |-> <<"flour", "milk", "egg", "rice">>, difficulty |-> "easy", lang |-> "en"] }

NoRecipe == [ingredients |-> {}, name |-> "", sound |-> FALSE]
NoError == ""

Range(s) == { s[i] : i \in 1..Len(s) }

RECURSIVE SetToSeq(_)
SetToSeq(S) ==
    IF S = {} THEN <<>>
    ELSE LET x == CHOOSE y \in S : TRUE IN
         <<x>> \o SetToSeq(S \ {x})

\* ------------------------------------------------- IngredientValidator
\* variant: letter case is kept
NormalizeKeepsCase(raw) == raw

\* case folding of one ingredient
Normalize(raw) ==
    CASE raw = "Egg" -> "egg"
      [] raw = "EGG" -> "egg"
      [] raw = "Milk" -> "milk"
      [] OTHER -> raw

IsSafe(raw) == raw \notin {"fl<our"}

NormalizeAll(list) == { Normalize(list[i]) : i \in 1..Len(list) }

FilterDefaults(S) == S \ DefaultPantry

\* variant: the non-default count is not checked
ValidationOkNoPantryCheck(list, diff) ==
    /\ Len(list) >= MinIngredients
    /\ diff \in Difficulties
    /\ \A i \in 1..Len(list) : IsSafe(list[i])

ValidationOk(list, diff) ==
    /\ Len(list) >= MinIngredients
    /\ Cardinality(FilterDefaults(NormalizeAll(list))) >= 1
    /\ diff \in Difficulties
    /\ \A i \in 1..Len(list) : IsSafe(list[i])

\* ------------------------------------------------------------ RecipeStore
\* exact-tier key: canonical (case-folded, default-free) ingredient set plus
\* difficulty plus language
CacheKey(S, diff, lang) == [ingredients |-> S, difficulty |-> diff, lang |-> lang]

RequestKey(list, diff, lang) == CacheKey(FilterDefaults(NormalizeAll(list)), diff, lang)

\* embedding of an ingredient set: its indicator vector, kept as the set
Embed(S) == S

\* cosine similarity of two indicator vectors is at least the threshold
Similar(a, b) ==
    /\ a # {} /\ b # {}
    /\ LET n == Cardinality(a \cap b) IN
       100 * 100 * n * n >= SimilarityThreshold * SimilarityThreshold
                              * Cardinality(a) * Cardinality(b)

\* scaled squared cosine, to rank neighbours of one query vector
Score(a, b) == (1000 * Cardinality(a \cap b) * Cardinality(a \cap b)) \div Cardinality(b)

\* index of the newest record for the key, 0 on a miss
ExactFind(st, key) ==
    LET hits == { i \in 1..Len(st) : st[i].key = key } IN
    IF hits = {} THEN 0 ELSE CHOOSE i \in hits : \A j \in hits : j <= i

\* index of the best neighbour above the threshold with the same difficulty
\* and language, 0 on a miss
SemanticFind(st, vec, diff, lang) ==
    LET hits == { i \in 1..Len(st) :
                    /\ st[i].key.difficulty = diff
                    /\ st[i].key.lang = lang
                    /\ Similar(vec, st[i].embedding) } IN
    IF hits = {} THEN 0
    ELSE CHOOSE i \in hits : \A j \in hits :
            \/ Score(vec, st[j].embedding) < Score(vec, st[i].embedding)
            \/ (Score(vec, st[j].embedding) = Score(vec, st[i].embedding) /\ j <= i)

\* ------------------------------------------------- provider result spaces
\* candidates a generation or a web search can return for a working set:
\* the working set plus a pantry staple or plus a fabricated ingredient,
\* with consistent or inconsistent steps
Candidates(nm, working) ==
    { [ingredients |-> working \cup X, name |-> nm, sound |-> b] :
        X \in {{"salt"}, {Hallucinated}}, b \in BOOLEAN } \ 
    { [ingredients |-> working \cup {Hallucinated}, name |-> nm, sound |-> FALSE] }

\* /feedback bodies a client may send: two recipes for one key, and a
\* recipe for a one-line ingredient list
Omelette == [ingredients |-> {"egg", "milk", "flour", "salt"}, name |-> "omelette", sound |-> TRUE]
Pancake == [ingredients |-> {"egg", "milk", "flour"}, name |-> "pancake", sound |-> TRUE]

FeedbackBodies ==
    { [ingredients |-> <<"Egg", "milk", "flour", "salt">>, difficulty |-> "easy",
       lang |-> "en", recipe |-> Omelette],
      [ingredients |-> <<"flour", "milk", "egg", "egg">>, difficulty |-> "easy",
       lang |-> "en", recipe |-> Pancake],
      [ingredients |-> <<"pasta">>, difficulty |-> "easy",
       lang |-> "en", recipe |-> Pancake] }

\* /modify bodies a client may send
ModifyRequests ==
    { [difficulty |-> "easy", lang |-> "en",
       original_ingredients |-> <<"egg", "Milk">>, new_ingredients |-> <<"rice", "salt">>] }

\* ------------------------------------------------------------- ReviewGate
\* variant: the hallucination check is skipped
ReviewPassesNoHallucinationCheck(c, working) == c.sound

\* logical consistency and hallucination check of a candidate
ReviewPasses(c, working) ==
    /\ c.sound
    /\ c.ingredients \subseteq (working \cup DefaultPantry)

\* variant: earlier proposals and rejections are not consulted
SuggestionAllowedNoHistory(P, working, proposed, rejected) ==
    /\ Cardinality(P) \in 1..MaxExtras
    /\ P \cap working = {}

\* a suggestion may be emitted: 1-2 extras, none proposed before, and the
\* combination not rejected before
SuggestionAllowed(P, working, proposed, rejected) ==
    /\ Cardinality(P) \in 1..MaxExtras
    /\ P \cap working = {}
    /\ P \cap Range(proposed) = {}
    /\ P \notin rejected

\* ------------------------------------------ ResolutionOrchestrator rules
\* variant: the budgets are compared off by one
BudgetAllowsOffByOne(ic, ec, P) ==
    /\ ic <= MaxIterations
    /\ ec + Cardinality(P) <= MaxExtras + 1

\* an approval request may be issued for suggestion P
BudgetAllows(ic, ec, P) ==
    /\ ic < MaxIterations
    /\ ec + Cardinality(P) <= MaxExtras

\* variant: an approval request is issued whatever the budgets
AfterFixableAlwaysAsk(ic, ec, P) == "AwaitingApproval"

\* variant: only the iteration budget is consulted
AfterFixableIterationsOnly(ic, ec, P) ==
    IF ic < MaxIterations THEN "AwaitingApproval" ELSE "Failed"

\* stage after an invalid-fixable outcome with suggestion P
AfterFixable(ic, ec, P) ==
    IF BudgetAllows(ic, ec, P) THEN "AwaitingApproval" ELSE "Failed"

\* variant: the suggested extras are added at once, without approval
WorkingAfterProposalAutoAdd(working, P) == working \cup P

\* the working set when a suggestion is issued: untouched until approval
WorkingAfterProposal(working, P) == working

\* variant: the approved extras are counted but not merged
WorkingAfterApproveNoMerge(working, P) == working

\* the working set after the user approved proposal P
WorkingAfterApprove(working, P) == working \cup P

\* variant: one approval counts as one extra
ExtraCountAfterApprovePerApproval(ec, P) == ec + 1

\* extra_count is the count of extras added
ExtraCountAfterApprove(ec, P) == ec + Cardinality(P)

\* variant: the resumed session is run again from its entry stage
AfterApproveRestarts(ic) == "Validating"

\* stage after an approval that brought iteration_count to ic: the resumed
\* session goes on with the next generation
AfterApprove(ic) == "Generating"

\* variant: the rejected combination is not recorded
RejectedAfterRejectForgets(rejected, P) == rejected

\* rejected_combinations after the user rejected proposal P
RejectedAfterReject(rejected, P) == rejected \cup {P}

\* variant: a rejection on an exhausted budget leaves the session suspended
AfterRejectNoFail(ic) == IF ic < MaxIterations THEN "Generating" ELSE "AwaitingApproval"

\* variant: a rejection sends the session back to the web search
AfterRejectToSearch(ic) == IF ic < MaxIterations THEN "Searching" ELSE "Failed"

\* stage after a rejection that brought iteration_count to ic
AfterReject(ic) == IF ic < MaxIterations THEN "Generating" ELSE "Failed"

Terminal == {"Success", "Failed"}

\* variant: the counter is reported as it stands
IterationsOfCounter(ic) == ic

\* iterations of the response: the attempts made, the first one included
IterationsOf(ic) == ic + 1

\* extra_ingredients_added of the response: the proposed extras that are in
\* the working set, in the order they were proposed
ExtrasAdded(proposed, working, original) ==
    LET Added(x) == x \in working \ original IN SelectSeq(proposed, Added)

\* status of the response
StatusOf(st) ==
    IF st = "Success" THEN "success" ELSE IF st = "Failed" THEN "error" ELSE "pending"

\* HTTP status of the /generate response for a finished session
HttpStatus(st, err) ==
    IF st = "Failed" /\ err = "ValidationError" THEN 422 ELSE 200

NoRequest ==
    [ingredients |-> <<>>, difficulty |-> "", lang |-> "",
     new_ingredients |-> <<>>, kind |-> "none"]

\* provider calls of a session: counts per lookup and generation provider,
\* and the origins of the candidates handed to the review, in order
NoCalls == [embed |-> 0, search |-> 0, gen |-> 0, reviewed |-> <<>>]

NoHit == [n |-> 0, key |-> CacheKey({}, "", ""), recipe |-> NoRecipe, at |-> 0]

\* concurrent /feedback writers
Writers == 1..MaxWriters

\* keys a /feedback body can address
FeedbackKeys ==
    { RequestKey(b.ingredients, b.difficulty, b.lang) : b \in FeedbackBodies }

NoBody == [ingredients |-> <<>>, difficulty |-> "", lang |-> "", recipe |-> NoRecipe]

\* began_at: size of the recipes table when the write was submitted
IdleWriter == [stage |-> "idle", body |-> NoBody, began_at |-> 0]

\* a row of the recipes table with nothing written yet
EmptyRow == [recipe |-> NoRecipe, sent |-> <<>>]

\* ------------------------------------------------- GeneratePage (frontend)
\* initialState of useCoAgent; the fields it leaves out are unset
initialState ==
    [ingredients |-> <<>>, difficulty |-> "", lang |-> "en", recipe |-> NoRecipe,
     error |-> "", extra_count |-> 0, iteration_count |-> 0]

\* the shared agent state as the backend emits it during a run, in language l
AgentStates(l) ==
    { [initialState EXCEPT !.lang = l],
      [initialState EXCEPT !.lang = l, !.ingredients = <<"egg", "milk", "flour">>],
      [initialState EXCEPT !.lang = l, !.ingredients = <<"egg", "milk", "flour">>,
                           !.difficulty = "easy"],
      [initialState EXCEPT !.lang = l, !.ingredients = <<"egg", "milk", "flour">>,
                           !.difficulty = "easy", !.recipe = Pancake,
                           !.iteration_count = 1],
      [initialState EXCEPT !.lang = l, !.ingredients = <<"egg", "milk", "flour">>,
                           !.difficulty = "easy", !.error = "ExhaustedRetries",
                           !.extra_count = 2, !.iteration_count = 3] }

\* ------------------------------------------------------------------ state
VARIABLES
    sid,                        \* request id of the current session
    state,                      \* stage of the current session
    request,                    \* the request body that opened the session
    approved_before,            \* an approved record for that body existed then
    last_hit,                   \* key, recipe and store size of the last exact hit
    difficulty,
    language,
    ingredients,                \* working set
    original_ingredients,       \* snapshot of the validated user input
    extra_ingredients_proposed, \* every extra proposed so far, in order
    extra_count,
    iteration_count,
    rejected_combinations,
    pending,                    \* the proposal awaiting the user's decision
    candidate,                  \* recipe under review
    recipe,
    error,
    source,                     \* stage that produced the recipe
    store,                      \* recipes table, oldest record first
    calls,                      \* provider calls made by the session
    approved_extras,            \* extras the user approved in the session
    offered,                    \* proposals that reached the user, in order
    review,                     \* outcome of the review the session acts on
    call_failed,                \* the latest provider call failed or timed out
    suggested,                  \* extras suggested by that review
    ui_recipe,                  \* recipe content of the relay's last response
    shared,                     \* GeneratePage: the agent state useCoAgent shares
    page_language,              \* GeneratePage: language (useState)
    rendered,                   \* GeneratePage: state and language of the last render
    effect_pending,             \* GeneratePage: the render's effect has not run yet
    wrote,                      \* GeneratePage: the last step called setState
    writer,                     \* /feedback writes in flight, by writer
    slot,                       \* per key, the row a write is building
    logs,                       \* logs table, oldest record first
    log_followed                \* the logs table is followed in this run

sessionVars ==
    <<state, request, approved_before, difficulty, language, ingredients, original_ingredients,
      extra_ingredients_proposed, extra_count, iteration_count,
      rejected_combinations, pending, candidate, recipe, error, source,
      calls, approved_extras, offered, review, call_failed, suggested>>

\* what the relay route and the store's writers own
pageVars == <<shared, page_language, rendered, effect_pending, wrote>>

relayVars == <<ui_recipe, pageVars>>

writeVars == <<writer, slot>>

logVars == <<logs, log_followed>>

vars == <<sid, sessionVars, store, last_hit, relayVars, writeVars, logVars>>

\* the service after start-up, tables empty
Started ==
    /\ sid = 0
    /\ state = "Idle"
    /\ request = NoRequest
    /\ approved_before = FALSE
    /\ last_hit = NoHit
    /\ difficulty = ""
    /\ language = ""
    /\ ingredients = {}
    /\ original_ingredients = {}
    /\ extra_ingredients_proposed = <<>>
    /\ extra_count = 0
    /\ iteration_count = 0
    /\ rejected_combinations = {}
    /\ pending = {}
    /\ candidate = NoRecipe
    /\ recipe = NoRecipe
    /\ error = NoError
    /\ source = ""
    /\ store = <<>>
    /\ calls = NoCalls
    /\ approved_extras = {}
    /\ offered = <<>>
    /\ review = ""
    /\ call_failed = FALSE
    /\ suggested = {}
    /\ ui_recipe = NoRecipe
    /\ shared = initialState
    /\ page_language = "en"
    /\ rendered = [state |-> initialState, language |-> "en"]
    /\ effect_pending = FALSE
    /\ wrote = FALSE
    /\ writer = [w \in Writers |-> IdleWriter]
    /\ slot = [k \in FeedbackKeys |-> EmptyRow]
    /\ logs = <<>>

\* nothing reads the logs table, so it is followed only where a property
\* speaks of it
Init == Started /\ log_followed = FALSE

LogInit == Started /\ log_followed = TRUE

\* the /generate response fields the session determines
Response ==
    [status |-> StatusOf(state),
     iterations |-> IterationsOf(iteration_count),
     extra_ingredients_added |->
        ExtrasAdded(extra_ingredients_proposed, ingredients, original_ingredients)]

\* a fresh ResolutionSession for request r, entering at stage st with
\* working set W
OpenSession(r, st, W) ==
    /\ state \in Terminal \cup {"Idle"}
    /\ sid < MaxSessions
    /\ sid' = sid + 1
    /\ state' = st
    /\ request' = r
    /\ approved_before' = \E i \in 1..Len(store) :
                              /\ store[i].approved
                              /\ store[i].sent = r.ingredients
                              /\ store[i].key.difficulty = r.difficulty
                              /\ store[i].key.lang = r.lang
    /\ difficulty' = r.difficulty
    /\ language' = r.lang
    /\ ingredients' = W
    /\ original_ingredients' = W
    /\ extra_ingredients_proposed' = <<>>
    /\ extra_count' = 0
    /\ iteration_count' = 0
    /\ rejected_combinations' = {}
    /\ pending' = {}
    /\ candidate' = NoRecipe
    /\ recipe' = NoRecipe
    /\ error' = NoError
    /\ source' = ""
    /\ calls' = NoCalls
    /\ approved_extras' = {}
    /\ offered' = <<>>
    /\ review' = ""
    /\ call_failed' = FALSE
    /\ suggested' = {}
    /\ ui_recipe' = NoRecipe
    /\ UNCHANGED <<store, last_hit, writeVars, logVars, pageVars>>

\* POST /generate with a body out of R
HandleGenerateFrom(R) ==
    \E r \in R :
        OpenSession([ingredients |-> r.ingredients, difficulty |-> r.difficulty,
                     lang |-> r.lang, new_ingredients |-> <<>>,
                     kind |-> "generate"],
                    "Validating", {})

\* POST /generate
HandleGenerate == HandleGenerateFrom(GenerateRequests)

\* POST /generate with one ingredient list written in other orders, cases
\* and multiplicities, and asked for at another difficulty or language
HandleGenerateRewritten == HandleGenerateFrom(RewrittenRequests)

\* variant: a modification runs through the cache lookups first
ModifyEntryStageCaching == "Caching"

\* stage at which a /modify session enters the pipeline
ModifyEntryStage == "Generating"

\* the merged ingredient set of a /modify body
MergedIngredients(orig, new) == Range(orig) \cup Range(new)

\* POST /modify: enters at Generating with the merged ingredient set
HandleModify ==
    \E r \in ModifyRequests :
        OpenSession([ingredients |-> r.original_ingredients,
                     difficulty |-> r.difficulty, lang |-> r.lang,
                     new_ingredients |-> r.new_ingredients, kind |-> "modify"],
                    ModifyEntryStage,
                    MergedIngredients(r.original_ingredients, r.new_ingredients))

\* ------------------------------------------------------------- log store
\* a row of the logs table; the timestamp is the position in the table
LogRecord(lg, kind, rid) ==
    [timestamp |-> Len(lg) + 1, error_kind |-> kind, request_id |-> rid]

\* error kind logged for a failed or timed-out call of a stage's provider
CallErrorKind(stage) ==
    IF stage = "Generating" THEN "GenerationError" ELSE "SearchError"

\* variant: a provider-call failure is recovered without a log record
LogCallFailureSilent(lg, stage, rid) == lg

\* the logs table after a failed provider call of the stage
LogCallFailure(lg, stage, rid) == Append(lg, LogRecord(lg, CallErrorKind(stage), rid))

\* the logs table after the session ended in Failed(kind)
LogTerminal(lg, kind, rid) == Append(lg, LogRecord(lg, kind, rid))

\* the log writes of a session step: one record for the provider call that
\* failed in it, one for the terminal failure it ended in
WriteLogs ==
    LET called == calls'.embed + calls'.search + calls'.gen
                    > calls.embed + calls.search + calls.gen
        afterCall == IF called /\ call_failed'
                     THEN LogCallFailure(logs, state, sid) ELSE logs
    IN  /\ logs' = IF ~log_followed THEN logs
                   ELSE IF state' = "Failed"
                        THEN LogTerminal(afterCall, error', sid) ELSE afterCall
        /\ UNCHANGED log_followed

\* a terminal failure
Fail(kind) ==
    /\ state' = "Failed"
    /\ error' = kind

\* Validating
Validate ==
    /\ state = "Validating"
    /\ IF ValidationOk(request.ingredients, request.difficulty)
       THEN /\ state' = "Caching"
            /\ ingredients' = FilterDefaults(NormalizeAll(request.ingredients))
            /\ original_ingredients' = FilterDefaults(NormalizeAll(request.ingredients))
            /\ UNCHANGED error
       ELSE /\ Fail("ValidationError")
            /\ UNCHANGED <<ingredients, original_ingredients>>
    /\ UNCHANGED <<sid, request, approved_before, last_hit, difficulty, language, extra_ingredients_proposed,
                   extra_count, iteration_count, rejected_combinations, pending,
                   candidate, recipe, source, store, calls, approved_extras,
                   offered>>
    /\ UNCHANGED <<review, call_failed, suggested>>
    /\ UNCHANGED <<relayVars, writeVars>>
    /\ WriteLogs

\* fields only the approval loop writes
loopVars ==
    <<extra_ingredients_proposed, extra_count, iteration_count,
      rejected_combinations, pending, approved_extras, offered>>

\* variant: a failure of the web search ends the session
AfterLookupFailureSearchFatal(stage) ==
    IF stage = "CachingSemantic" THEN "Searching" ELSE "Failed"

\* stage after the provider of a lookup stage failed or timed out: the
\* stage a miss leads to
AfterLookupFailure(stage) ==
    IF stage = "CachingSemantic" THEN "Searching" ELSE "Generating"

\* variant: the semantic tier is skipped
AfterExactMissSkipsSemantic == "Searching"

\* stage after a miss of the exact tier: the semantic tier
AfterExactMiss == "CachingSemantic"

\* variant: a semantic hit is passed on to the search stage
AfterCacheHitSemanticGoesOn(tier) == IF tier = "exact" THEN "Success" ELSE "Searching"

\* stage after a hit of either cache tier
AfterCacheHit(tier) == "Success"

\* variant: the point query returns any record stored for the key
ExactMatchesAny(st, key) == { i \in 1..Len(st) : st[i].key = key }

\* records the point query returns for a key: the newest one
ExactMatches(st, key) ==
    LET i == ExactFind(st, key) IN IF i = 0 THEN {} ELSE {i}

\* Caching, exact tier (CacheResolver): point query by key
ExactLookup ==
    /\ state = "Caching"
    /\ LET key == CacheKey(ingredients, difficulty, language)
           M == ExactMatches(store, key) IN
       IF M # {}
       THEN \E i \in M :
            /\ state' = AfterCacheHit("exact")
            /\ recipe' = store[i].recipe
            /\ source' = "exact"
            /\ last_hit' = [n |-> last_hit.n + 1, key |-> key,
                            recipe |-> store[i].recipe, at |-> Len(store)]
       ELSE /\ state' = AfterExactMiss
            /\ UNCHANGED <<recipe, source, last_hit>>
    /\ UNCHANGED <<sid, request, approved_before, difficulty, language, ingredients,
                   original_ingredients, loopVars, candidate, error, store, calls>>
    /\ UNCHANGED <<review, call_failed, suggested>>
    /\ UNCHANGED <<relayVars, writeVars>>
    /\ WriteLogs

\* Caching, semantic tier: embedding obtained, nearest neighbour queried
SemanticLookup ==
    /\ state = "CachingSemantic"
    /\ calls' = [calls EXCEPT !.embed = @ + 1]
    /\ LET i == SemanticFind(store, Embed(ingredients), difficulty, language) IN
       IF i # 0
       THEN /\ state' = AfterCacheHit("semantic")
            /\ recipe' = store[i].recipe
            /\ source' = "semantic"
       ELSE /\ state' = "Searching"
            /\ UNCHANGED <<recipe, source>>
    /\ UNCHANGED <<sid, request, approved_before, last_hit, difficulty, language, ingredients, original_ingredients, loopVars,
                   candidate, error, store>>
    /\ call_failed' = FALSE
    /\ UNCHANGED <<review, suggested>>
    /\ UNCHANGED <<relayVars, writeVars>>
    /\ WriteLogs

\* Caching, semantic tier: EmbeddingProvider fails or times out
EmbeddingFails ==
    /\ state = "CachingSemantic"
    /\ calls' = [calls EXCEPT !.embed = @ + 1]
    /\ state' = AfterLookupFailure(state)
    /\ UNCHANGED <<sid, request, approved_before, last_hit, difficulty, language, ingredients, original_ingredients, loopVars,
                   candidate, recipe, source, store>>
    /\ call_failed' = TRUE
    /\ UNCHANGED <<review, suggested>>
    /\ UNCHANGED <<relayVars, writeVars>>
    /\ error' = IF AfterLookupFailure(state) = "Failed" THEN "SearchError" ELSE error
    /\ WriteLogs

\* Searching: a structurally valid candidate was extracted
WebSearchHit ==
    /\ state = "Searching"
    /\ \E c \in Candidates("web", ingredients) : candidate' = c
    /\ calls' = [calls EXCEPT !.search = @ + 1]
    /\ state' = "Reviewing"
    /\ UNCHANGED <<sid, request, approved_before, last_hit, difficulty, language, ingredients, original_ingredients, loopVars,
                   recipe, error, source, store>>
    /\ call_failed' = FALSE
    /\ UNCHANGED <<review, suggested>>
    /\ UNCHANGED <<relayVars, writeVars>>
    /\ WriteLogs

\* Searching: no usable result
WebSearchMiss ==
    /\ state = "Searching"
    /\ calls' = [calls EXCEPT !.search = @ + 1]
    /\ state' = "Generating"
    /\ UNCHANGED <<sid, request, approved_before, last_hit, difficulty, language, ingredients, original_ingredients, loopVars,
                   candidate, recipe, error, source, store>>
    /\ call_failed' = FALSE
    /\ UNCHANGED <<review, suggested>>
    /\ UNCHANGED <<relayVars, writeVars>>
    /\ WriteLogs

\* Searching: WebSearchProvider fails or times out
WebSearchFails ==
    /\ state = "Searching"
    /\ calls' = [calls EXCEPT !.search = @ + 1]
    /\ state' = AfterLookupFailure(state)
    /\ UNCHANGED <<sid, request, approved_before, last_hit, difficulty, language, ingredients, original_ingredients, loopVars,
                   candidate, recipe, source, store>>
    /\ call_failed' = TRUE
    /\ UNCHANGED <<review, suggested>>
    /\ UNCHANGED <<relayVars, writeVars>>
    /\ error' = IF AfterLookupFailure(state) = "Failed" THEN "SearchError" ELSE error
    /\ WriteLogs

\* Generating (RecipeGenerator): output parsed into a candidate
GenerateOk ==
    /\ state = "Generating"
    /\ \E c \in Candidates("generate", ingredients) : candidate' = c
    /\ calls' = [calls EXCEPT !.gen = @ + 1]
    /\ state' = "Reviewing"
    /\ UNCHANGED <<sid, request, approved_before, last_hit, difficulty, language, ingredients, original_ingredients, loopVars,
                   recipe, error, source, store>>
    /\ call_failed' = FALSE
    /\ UNCHANGED <<review, suggested>>
    /\ UNCHANGED <<relayVars, writeVars>>
    /\ WriteLogs

\* variant: generation failures have a budget of their own
CountAfterGenerationFailureSeparate(ic) == ic

\* iteration_count after a failed generation call that is retried
CountAfterGenerationFailure(ic) == ic + 1

\* Generating: unparseable output or timeout; retried under the iteration
\* budget
GenerateFails ==
    /\ state = "Generating"
    /\ calls' = [calls EXCEPT !.gen = @ + 1]
    /\ IF iteration_count < MaxIterations
       THEN /\ iteration_count' = CountAfterGenerationFailure(iteration_count)
            /\ UNCHANGED <<state, error>>
       ELSE /\ Fail("ExhaustedRetries")
            /\ UNCHANGED iteration_count
    /\ UNCHANGED <<sid, request, approved_before, last_hit, difficulty, language, ingredients, original_ingredients,
                   extra_ingredients_proposed, extra_count,
                   rejected_combinations, pending, approved_extras, offered,
                   candidate, recipe, source, store>>
    /\ call_failed' = TRUE
    /\ UNCHANGED <<review, suggested>>
    /\ UNCHANGED <<relayVars, writeVars>>
    /\ WriteLogs

\* variant: an accepted candidate is saved at once
StoreAfterReviewAutoSave(st, key, r) ==
    Append(st, [key |-> key, embedding |-> Embed(key.ingredients), recipe |-> r,
                sent |-> <<>>, approved |-> FALSE])

\* the recipes table after a review accepted a candidate: nothing is
\* written before /feedback approves
StoreAfterReview(st, key, r) == st

\* Reviewing: both checks pass
ReviewValid ==
    /\ state = "Reviewing"
    /\ ReviewPasses(candidate, ingredients)
    /\ state' = "Success"
    /\ recipe' = candidate
    /\ source' = candidate.name
    /\ candidate' = NoRecipe
    /\ store' = StoreAfterReview(store,
                    CacheKey(original_ingredients, difficulty, language),
                    candidate)
    /\ UNCHANGED <<sid, request, approved_before, last_hit, difficulty, language, ingredients, original_ingredients, loopVars,
                   error>>
    /\ review' = "valid"
    /\ suggested' = {}
    /\ UNCHANGED <<call_failed>>
    /\ calls' = [calls EXCEPT !.reviewed = Append(@, candidate.name)]
    /\ UNCHANGED <<relayVars, writeVars>>
    /\ WriteLogs

\* Reviewing: invalid-fixable with suggestion P
ReviewFixable ==
    /\ state = "Reviewing"
    /\ ~ReviewPasses(candidate, ingredients)
    /\ \E P \in SUBSET ExtraPool :
        /\ SuggestionAllowed(P, ingredients, extra_ingredients_proposed,
                             rejected_combinations)
        /\ suggested' = P
        /\ IF AfterFixable(iteration_count, extra_count, P) = "AwaitingApproval"
           THEN /\ state' = "AwaitingApproval"
                /\ pending' = P
                /\ extra_ingredients_proposed' =
                        extra_ingredients_proposed \o SetToSeq(P)
                /\ offered' = Append(offered, P)
                /\ ingredients' = WorkingAfterProposal(ingredients, P)
                /\ UNCHANGED error
           ELSE /\ Fail("ExhaustedRetries")
                /\ UNCHANGED <<pending, extra_ingredients_proposed, offered,
                               ingredients>>
    /\ candidate' = NoRecipe
    /\ UNCHANGED <<sid, request, approved_before, last_hit, difficulty, language, original_ingredients, extra_count,
                   iteration_count, rejected_combinations, approved_extras,
                   recipe, source, store>>
    /\ review' = "fixable"
    /\ UNCHANGED <<call_failed>>
    /\ calls' = [calls EXCEPT !.reviewed = Append(@, candidate.name)]
    /\ UNCHANGED <<relayVars, writeVars>>
    /\ WriteLogs

\* variant: an unfixable outcome is retried while iteration budget remains
AfterUnfixableRetry(ic, ec) == IF ic < MaxIterations THEN "Generating" ELSE "Failed"

\* stage after an invalid-unfixable outcome, whatever the counters
AfterUnfixable(ic, ec) == "Failed"

\* Reviewing: invalid-unfixable
ReviewUnfixable ==
    /\ state = "Reviewing"
    /\ ~ReviewPasses(candidate, ingredients)
    /\ LET nxt == AfterUnfixable(iteration_count, extra_count) IN
       IF nxt = "Failed"
       THEN /\ Fail("GenerationError")
            /\ UNCHANGED iteration_count
       ELSE /\ state' = nxt
            /\ iteration_count' = iteration_count + 1
            /\ UNCHANGED error
    /\ candidate' = NoRecipe
    /\ UNCHANGED <<sid, request, approved_before, last_hit, difficulty, language, ingredients, original_ingredients,
                   extra_ingredients_proposed, extra_count, rejected_combinations,
                   pending, approved_extras, offered, recipe, source, store>>
    /\ review' = "unfixable"
    /\ suggested' = {}
    /\ UNCHANGED <<call_failed>>
    /\ calls' = [calls EXCEPT !.reviewed = Append(@, candidate.name)]
    /\ UNCHANGED <<relayVars, writeVars>>
    /\ WriteLogs

\* variant: a decision is accepted whenever the session has proposals
DecisionEnabledAnyStage == state # "Idle" /\ extra_ingredients_proposed # <<>>

\* the suspended session accepts a decision
DecisionEnabled == state = "AwaitingApproval" /\ pending # {}

\* AwaitingApproval: the user approves the proposal
Approve ==
    /\ DecisionEnabled
    /\ ingredients' = WorkingAfterApprove(ingredients, pending)
    /\ approved_extras' = approved_extras \cup pending
    /\ extra_count' = ExtraCountAfterApprove(extra_count, pending)
    /\ iteration_count' = iteration_count + 1
    /\ pending' = {}
    /\ state' = AfterApprove(iteration_count + 1)
    /\ UNCHANGED <<sid, request, approved_before, last_hit, difficulty, language, original_ingredients,
                   extra_ingredients_proposed, rejected_combinations, offered,
                   candidate, recipe, error, source, store, calls>>
    /\ review' = ""
    /\ suggested' = {}
    /\ UNCHANGED <<call_failed>>
    /\ UNCHANGED <<relayVars, writeVars>>
    /\ WriteLogs

\* AwaitingApproval: the user rejects the proposal
Reject ==
    /\ DecisionEnabled
    /\ rejected_combinations' = RejectedAfterReject(rejected_combinations, pending)
    /\ iteration_count' = iteration_count + 1
    /\ pending' = {}
    /\ LET nxt == AfterReject(iteration_count + 1) IN
       IF nxt = "Failed"
       THEN Fail("ExhaustedRetries")
       ELSE /\ state' = nxt
            /\ UNCHANGED error
    /\ UNCHANGED <<sid, request, approved_before, last_hit, difficulty, language, ingredients, original_ingredients,
                   extra_ingredients_proposed, extra_count, approved_extras,
                   offered, candidate, recipe, source, store, calls>>
    /\ review' = ""
    /\ suggested' = {}
    /\ UNCHANGED <<call_failed>>
    /\ UNCHANGED <<relayVars, writeVars>>
    /\ WriteLogs

\* the client disconnects while the session is suspended
Abandon ==
    /\ state = "AwaitingApproval"
    /\ state' = "Idle"
    /\ UNCHANGED <<sid, request, approved_before, last_hit, difficulty, language, ingredients, original_ingredients, loopVars,
                   candidate, recipe, error, source, store, calls>>
    /\ UNCHANGED <<review, call_failed, suggested>>
    /\ UNCHANGED <<relayVars, writeVars>>
    /\ UNCHANGED logVars

\* ----------------------------------------------------------- POST /feedback
\* variant: the key is built from the raw list
FeedbackKeyRaw(list, diff, lang) == CacheKey(Range(list), diff, lang)

\* key of a feedback body: the same canonical key as for /generate
FeedbackKey(list, diff, lang) == RequestKey(list, diff, lang)

\* a record of the recipes table; approved and sent remember the feedback
\* body it was written for
CacheRecord(key, r, approved, list) ==
    [key |-> key, embedding |-> Embed(key.ingredients), recipe |-> r,
     sent |-> list, approved |-> approved]

\* approved = true persists the recipe under its key as the newest record;
\* approved = false persists nothing
StoreAfterFeedback(st, approved, rec) ==
    IF approved THEN Append(st, rec) ELSE st

Feedback ==
    /\ Len(store) < MaxRecords
    /\ \E b \in FeedbackBodies, approved \in BOOLEAN :
        store' = StoreAfterFeedback(store, approved,
                    CacheRecord(FeedbackKey(b.ingredients, b.difficulty, b.lang),
                                b.recipe, approved, b.ingredients))
    /\ UNCHANGED <<sid, sessionVars, last_hit>>
    /\ UNCHANGED <<relayVars, writeVars>>
    /\ UNCHANGED logVars

\* ------------------------------------------- concurrent /feedback writers
\* the steps of one approved /feedback when several are in flight: wait for
\* the key's write lock, write the recipe columns, obtain the embedding and
\* write the key columns, commit
KeyOfBody(b) == FeedbackKey(b.ingredients, b.difficulty, b.lang)

\* variant: a writer never waits for another writer of its key
KeyFreeNoLock(w, key, wr) == TRUE

\* no other writer holds the write lock of the key
KeyFree(w, key, wr) ==
    \A v \in Writers \ {w} :
        ~(wr[v].stage \in {"recipe", "embedding"} /\ KeyOfBody(wr[v].body) = key)

\* POST /feedback with approved = true is accepted by writer w
FeedbackBegin(w) ==
    /\ writer[w].stage \in {"idle", "done", "failed"}
    /\ Len(store) + Cardinality({ v \in Writers :
                                    writer[v].stage \notin {"idle", "done", "failed"} })
            < MaxRecords
    /\ \E b \in FeedbackBodies :
          writer' = [writer EXCEPT ![w] =
                        [stage |-> "waiting", body |-> b, began_at |-> Len(store)]]
    /\ UNCHANGED <<sid, sessionVars, store, last_hit, relayVars, slot, logVars>>

\* the writer takes the key's write lock and writes the recipe columns of
\* a fresh row
FeedbackWriteRecipe(w) ==
    /\ writer[w].stage = "waiting"
    /\ LET key == KeyOfBody(writer[w].body) IN
       /\ KeyFree(w, key, writer)
       /\ slot' = [slot EXCEPT ![key] =
                        [recipe |-> writer[w].body.recipe, sent |-> <<>>]]
    /\ writer' = [writer EXCEPT ![w].stage = "recipe"]
    /\ UNCHANGED <<sid, sessionVars, store, last_hit, relayVars, logVars>>

\* the embedding is obtained and the key columns of the row are written
FeedbackWriteEmbedding(w) ==
    /\ writer[w].stage = "recipe"
    /\ LET key == KeyOfBody(writer[w].body) IN
       slot' = [slot EXCEPT ![key].sent = writer[w].body.ingredients]
    /\ writer' = [writer EXCEPT ![w].stage = "embedding"]
    /\ UNCHANGED <<sid, sessionVars, store, last_hit, relayVars, logVars>>

\* commit: the row becomes the newest record of its key and the lock is
\* released
FeedbackCommit(w) ==
    /\ writer[w].stage = "embedding"
    /\ LET key == KeyOfBody(writer[w].body) IN
       /\ store' = StoreAfterFeedback(store, TRUE,
                        CacheRecord(key, slot[key].recipe, TRUE, slot[key].sent))
       /\ slot' = [slot EXCEPT ![key] = EmptyRow]
    /\ writer' = [writer EXCEPT ![w].stage = "done"]
    /\ UNCHANGED <<sid, sessionVars, last_hit, relayVars, logVars>>

\* request id of the /feedback request writer w serves
FeedbackRequestId(w) == MaxSessions + w

\* variant: the row is left as far as it was written
RowAfterWriteFailureKept(row) == row

\* the row a failed write was building: rolled back
RowAfterWriteFailure(row) == EmptyRow

\* the logs table after a failed store write
LogPersistenceFailure(lg, rid) == Append(lg, LogRecord(lg, "PersistenceError", rid))

\* a write of the row or its commit fails (PersistenceError): the row is
\* rolled back, the lock released and the failure logged; the response of
\* the session that produced the recipe was sent before and is not touched
FeedbackWriteFails(w) ==
    /\ writer[w].stage \in {"recipe", "embedding"}
    /\ Len(logs) < MaxLogs
    /\ LET key == KeyOfBody(writer[w].body) IN
       slot' = [slot EXCEPT ![key] = RowAfterWriteFailure(@)]
    /\ writer' = [writer EXCEPT ![w].stage = "failed"]
    /\ logs' = IF log_followed
               THEN LogPersistenceFailure(logs, FeedbackRequestId(w)) ELSE logs
    /\ UNCHANGED <<sid, sessionVars, store, last_hit, relayVars, log_followed>>

\* ----------------------------------------------- UI bridge (CopilotKit relay)
\* a completion of the Gemini model the service adapter wraps
ModelRecipe == [ingredients |-> {"egg", Hallucinated}, name |-> "gemini-2.0-flash", sound |-> TRUE]

\* what a service adapter returns for a chat request it is asked to answer:
\* the empty adapter produces nothing, the Gemini adapter a completion of
\* its model, which may or may not hold a recipe
AdapterContent(serviceAdapter) ==
    IF serviceAdapter = "ExperimentalEmptyAdapter"
    THEN {NoRecipe}
    ELSE {NoRecipe, ModelRecipe}

\* handleRequest of the runtime endpoint: a request bound to the agent
\* chestia_recipe_agent is forwarded to the backend and answered with the
\* session's state once the run has ended or is suspended; any other chat
\* request is answered by the route's service adapter
handleRequest(serviceAdapter) ==
    /\ \E bound \in BOOLEAN :
          IF bound
          THEN /\ state \in Terminal \cup {"AwaitingApproval"}
               /\ ui_recipe' = recipe
          ELSE /\ state \in Terminal \cup {"Idle"}
               /\ ui_recipe' \in AdapterContent(serviceAdapter)
    /\ UNCHANGED <<sid, sessionVars, store, last_hit, writeVars, logVars, pageVars>>

\* POST of app/api/copilotkit/route.ts
POST == handleRequest("ExperimentalEmptyAdapter")

\* POST of the route that constructs a GoogleGenerativeAIAdapter
POSTWithModelAdapter == handleRequest("GoogleGenerativeAIAdapter")

\* ------------------------------------------------------------ GeneratePage
\* LanguageToggle calls setLanguage with the other language
setLanguage ==
    /\ \E l \in Languages \ {page_language} : page_language' = l
    /\ wrote' = FALSE
    /\ UNCHANGED <<shared, rendered, effect_pending>>
    /\ UNCHANGED <<sid, sessionVars, store, last_hit, ui_recipe, writeVars, logVars>>

\* the backend agent emits a new shared state; it keeps the language it
\* was given
BackendStateUpdate ==
    /\ \E st \in AgentStates(shared.lang) \ {shared} : shared' = st
    /\ wrote' = FALSE
    /\ UNCHANGED <<page_language, rendered, effect_pending>>
    /\ UNCHANGED <<sid, sessionVars, store, last_hit, ui_recipe, writeVars, logVars>>

\* React renders GeneratePage after language or the shared state changed:
\* the render captures both, and its effect is scheduled because a
\* dependency changed; the effects of a render run before the next render
GeneratePage ==
    /\ ~effect_pending
    /\ rendered # [state |-> shared, language |-> page_language]
    /\ rendered' = [state |-> shared, language |-> page_language]
    /\ effect_pending' = TRUE
    /\ wrote' = FALSE
    /\ UNCHANGED <<shared, page_language>>
    /\ UNCHANGED <<sid, sessionVars, store, last_hit, ui_recipe, writeVars, logVars>>

\* the useEffect callback of the last render: state and language are the
\* values that render captured; setState replaces the shared state
useEffect ==
    /\ effect_pending
    /\ effect_pending' = FALSE
    /\ IF rendered.state.lang # rendered.language
       THEN /\ shared' = [rendered.state EXCEPT !.lang = rendered.language]
            /\ wrote' = TRUE
       ELSE /\ wrote' = FALSE
            /\ UNCHANGED shared
    /\ UNCHANGED <<page_language, rendered>>
    /\ UNCHANGED <<sid, sessionVars, store, last_hit, ui_recipe, writeVars, logVars>>

\* ------------------------------------------------------------ specification
SessionStep ==
    \/ Validate
    \/ ExactLookup
    \/ SemanticLookup
    \/ EmbeddingFails
    \/ WebSearchHit
    \/ WebSearchMiss
    \/ WebSearchFails
    \/ GenerateOk
    \/ GenerateFails
    \/ ReviewValid
    \/ ReviewFixable
    \/ ReviewUnfixable
    \/ Approve
    \/ Reject

Next ==
    \/ HandleGenerate
    \/ HandleModify
    \/ SessionStep
    \/ Abandon
    \/ Feedback

Spec == Init /\ [][Next]_vars

\* the service behind the relay routes; a relay step changes nothing of the
\* backend, so it is left out of Spec
BridgeNext ==
    \/ Next
    \/ POST
    \/ POSTWithModelAdapter

BridgeSpec == Init /\ [][BridgeNext]_vars

\* the recipes table under concurrent approved /feedback writes, with
\* /generate sessions reading the exact tier meanwhile
WriteNext ==
    \/ \E w \in Writers : FeedbackBegin(w)
    \/ \E w \in Writers : FeedbackWriteRecipe(w)
    \/ \E w \in Writers : FeedbackWriteEmbedding(w)
    \/ \E w \in Writers : FeedbackCommit(w)
    \/ \E w \in Writers : FeedbackWriteFails(w)
    \/ HandleGenerate
    \/ Validate
    \/ ExactLookup

WriteSpec == Init /\ [][WriteNext]_vars

\* the exact tier under rewritten requests: approved feedback and /generate
\* sessions up to the point query
KeyNext ==
    \/ HandleGenerateRewritten
    \/ Validate
    \/ ExactLookup
    \/ Feedback

KeySpec == Init /\ [][KeyNext]_vars

\* the concurrent writers with the logs table followed
PersistSpec == LogInit /\ [][WriteNext]_vars

\* the generate page, its user and the backend agent behind the shared state
PageNext ==
    \/ setLanguage
    \/ BackendStateUpdate
    \/ GeneratePage
    \/ useEffect

PageSpec == Init /\ [][PageNext]_vars

\* the sessions and the logs table they write
LogNext ==
    \/ HandleGenerate
    \/ HandleModify
    \/ SessionStep
    \/ Abandon

LogSpec == LogInit /\ [][LogNext]_vars

\* every stage of a session eventually runs: provider calls return or time
\* out, and the user answers each approval request
FairSpec == Spec /\ WF_vars(SessionStep)

\* ------------------------------------------------------------------ claims

\* C1: in every reachable state of every session 0 <= extra_count <= 2 and
\* 0 <= iteration_count <= 3.
C1_CountersBounded ==
    /\ extra_count \in 0..2
    /\ iteration_count \in 0..3

\* both counters at their limits, after approvals and a failed generation
C1_Witness ==
    /\ extra_count = 2
    /\ iteration_count = 3
    /\ approved_extras # {}

\* C2: no extra-ingredient combination is offered twice in one session, and
\* a combination awaiting approval is none of the rejected ones.
C2_NoRepeatedOffer ==
    /\ \A i, j \in 1..Len(offered) : i < j => offered[i] # offered[j]
    /\ rejected_combinations \subseteq Range(offered)
    /\ state = "AwaitingApproval" =>
            /\ pending = offered[Len(offered)]
            /\ pending \notin rejected_combinations

\* a third proposal is awaiting approval after two rejections
C2_Witness ==
    /\ state = "AwaitingApproval"
    /\ Len(offered) = 3
    /\ Cardinality(rejected_combinations) = 2

C4_AtMostTwoAdded ==
    Cardinality(ingredients \ original_ingredients) <= 2

\* a proposal of two extras was approved and the session went on
C4_Witness ==
    /\ \E i \in 1..Len(offered) :
         Cardinality(offered[i]) = 2 /\ offered[i] \subseteq ingredients
    /\ extra_count = 2
    /\ state = "Reviewing"

\* C5: a recipe accepted by the review contains only ingredients of the
\* working set, the default pantry, or extras approved earlier.
C5_ValidRecipeNotFabricated ==
    (state = "Success" /\ source \in {"web", "generate"}) =>
        recipe.ingredients \subseteq
            (ingredients \cup DefaultPantry \cup approved_extras)

\* the review accepted a generated recipe that uses an approved extra
C5_Witness ==
    /\ state = "Success"
    /\ source = "generate"
    /\ approved_extras # {}
    /\ approved_extras \subseteq recipe.ingredients

\* the session's exact-tier key
SessionKey == CacheKey(ingredients, difficulty, language)

\* the newest record stored for a key
NewestFor(key) ==
    CHOOSE i \in 1..Len(store) :
        /\ store[i].key = key
        /\ \A j \in 1..Len(store) : store[j].key = key => j <= i

HasRecordFor(key) == \E i \in 1..Len(store) : store[i].key = key

C7_Step ==
    /\ request.kind = "generate"
    /\ approved_before
    /\ state \in {"Validating", "Caching"}
    /\ state' # state

C7_HitsExactTier ==
    /\ state' \in {"Caching", "Success"}
    /\ state = "Caching" => (state' = "Success" /\ source' = "exact")
    /\ calls' = NoCalls

C8_StoreOnlyByFeedback ==
    [][ store' # store =>
          /\ UNCHANGED <<sid, sessionVars>>
          /\ Len(store') = Len(store) + 1
          /\ SubSeq(store', 1, Len(store)) = store
          /\ store'[Len(store')].approved ]_vars

\* a session ended through review while the table holds a superseded and
\* a newer record for one key
C8_Witness ==
    /\ state = "Success"
    /\ source = "generate"
    /\ Len(store) = 2
    /\ store[1].key = store[2].key
    /\ store[1].recipe # store[2].recipe

NonTerminal ==
    {"Validating", "Caching", "CachingSemantic", "Searching", "Generating",
     "Reviewing", "AwaitingApproval"}

\* C9: every session that is not abandoned reaches Success or Failed, and
\* one session makes at most 4 generation calls and 3 approval requests.
C9_Terminates ==
    /\ (state \in NonTerminal) ~> (state \in Terminal \/ state = "Idle")
    /\ [](calls.gen <= 4 /\ Len(offered) <= 3)

\* a session ended on an exhausted budget after four generation calls
C9_Witness ==
    /\ state = "Failed"
    /\ error = "ExhaustedRetries"
    /\ calls.gen = 4

\* C10: once a session is in Success or Failed, no step changes its stage,
\* recipe, error, extra_count or iteration_count.
C10_TerminalAbsorbing ==
    [][ (state \in Terminal /\ sid' = sid) =>
          UNCHANGED <<state, recipe, error, extra_count, iteration_count>> ]_vars

\* a session that failed after rejections, with a further step taken
C10_Witness ==
    /\ state = "Failed"
    /\ rejected_combinations # {}
    /\ Len(store) > 0

\* C11: an invalid-unfixable review outcome puts the session in
\* Failed(GenerationError) in the same step, whatever iteration_count and
\* extra_count are; that step issues no approval request, and afterwards the
\* session makes no generation call and issues no approval request.
C11_UnfixableFailsAtOnce ==
    /\ [](review = "unfixable" =>
            (state = "Failed" /\ error = "GenerationError" /\ pending = {}))
    /\ [][ (review' = "unfixable" /\ state = "Reviewing") =>
             (offered' = offered /\ calls'.gen = calls.gen) ]_vars
    /\ [][ (review = "unfixable" /\ sid' = sid) =>
             (calls' = calls /\ offered' = offered /\ state' = "Failed") ]_vars

\* an unfixable outcome ended a session that had budget left after one
\* approved extra
C11_Witness ==
    /\ review = "unfixable"
    /\ state = "Failed"
    /\ iteration_count = 1
    /\ extra_count = 1
    /\ calls.gen = 2

\* the raw list of the request has no non-default ingredient
C12_AllDefault(list) ==
    \A i \in 1..Len(list) : Normalize(list[i]) \in {"salt", "water", "oil", "olive oil"}

C13_FirstPassSuccess ==
    [][ ( /\ state = "Reviewing"
          /\ request.kind = "generate"
          /\ calls = [embed |-> 1, search |-> 1, gen |-> 1, reviewed |-> <<>>]
          /\ candidate.name = "generate"
          /\ review' = "valid" )
        => /\ Response' = [status |-> "success", iterations |-> 1,
                           extra_ingredients_added |-> <<>>]
           /\ offered' = <<>>
           /\ ingredients' = original_ingredients'
           /\ ingredients' = FilterDefaults(NormalizeAll(request.ingredients))
           /\ recipe' = candidate ]_vars

\* a cold-start /generate succeeded on the first generated candidate
C13_Witness ==
    /\ state = "Success"
    /\ request.kind = "generate"
    /\ source = "generate"
    /\ calls = [embed |-> 1, search |-> 1, gen |-> 1, reviewed |-> <<"generate">>]
    /\ Response.iterations = 1

C16_BridgePassive ==
    /\ [](ui_recipe \in {NoRecipe, recipe})
    /\ [][ (ui_recipe' # ui_recipe /\ sid' = sid) =>
             UNCHANGED <<recipe, calls, store>> ]_vars

\* the complete record of one feedback body
C17_RecordOf(b) == CacheRecord(KeyOfBody(b), b.recipe, TRUE, b.ingredients)

\* C17: writes of one key are serialized and the last applied write wins:
\* two writers of one key never write at the same time; every applied write
\* appends the complete record of its own feedback body, keeps the older
\* records, and is what the exact lookup of the key returns right after;
\* every record in the table is the complete record of one body, and an
\* exact hit of a concurrent reader returns the recipe of the newest
\* committed record of its key.
C17_SerializedLastApprovedWins ==
    /\ [](\A v, w \in Writers :
            ( /\ v # w
              /\ writer[v].stage \in {"recipe", "embedding"}
              /\ writer[w].stage \in {"recipe", "embedding"} )
            => KeyOfBody(writer[v].body) # KeyOfBody(writer[w].body))
    /\ [][ store' # store =>
             \E w \in Writers :
                /\ writer[w].stage = "embedding"
                /\ writer'[w].stage = "done"
                /\ store' = Append(store, C17_RecordOf(writer[w].body))
                /\ store'[ExactFind(store', KeyOfBody(writer[w].body))].recipe
                        = writer[w].body.recipe ]_vars
    /\ [](\A i \in 1..Len(store) :
            \E b \in FeedbackBodies : store[i] = C17_RecordOf(b))
    /\ [][ (state = "Caching" /\ state' = "Success") =>
             /\ HasRecordFor(SessionKey)
             /\ recipe' = store[NewestFor(SessionKey)].recipe
             /\ \E b \in FeedbackBodies :
                    KeyOfBody(b) = SessionKey /\ recipe' = b.recipe ]_vars

\* two writes of one key with different recipes were submitted before
\* either was applied, both completed, and a reader is served the recipe
\* of the one applied last
C17_Witness ==
    /\ \E v, w \in Writers :
          /\ v # w
          /\ writer[v].stage = "done" /\ writer[v].began_at = 0
          /\ writer[w].stage = "done" /\ writer[w].began_at = 0
    /\ Len(store) = 2
    /\ store[1].key = store[2].key
    /\ store[1].recipe # store[2].recipe
    /\ state = "Success"
    /\ source = "exact"
    /\ last_hit.at = 2
    /\ recipe = store[2].recipe

C19_LookupOrder ==
    /\ [][ (state' = "CachingSemantic" /\ state # "CachingSemantic") =>
             (state = "Caching" /\ ~HasRecordFor(SessionKey)) ]_vars
    /\ [][ calls'.embed > calls.embed =>
             (state = "CachingSemantic" /\ calls.embed = 0 /\ calls'.embed = 1) ]_vars
    /\ [][ (state' = "Searching" /\ state # "Searching") =>
             /\ state = "CachingSemantic"
             /\ calls'.embed = 1
             /\ \/ call_failed'
                \/ SemanticFind(store, Embed(ingredients), difficulty, language) = 0 ]_vars
    /\ [][ calls'.search > calls.search =>
             (state = "Searching" /\ calls.search = 0 /\ calls'.search = 1) ]_vars
    /\ [][ (state = "Searching" /\ state' = "Generating") =>
             (candidate' = NoRecipe /\ calls'.gen = 0) ]_vars
    /\ [][ (state = "Searching" /\ state' = "Reviewing") =>
             (candidate'.name = "web" /\ calls'.gen = 0 /\ calls'.reviewed = <<>>) ]_vars
    /\ [][ calls'.gen > calls.gen => state = "Generating" ]_vars
    /\ [](request.kind = "generate" =>
            /\ calls.gen > 0 => calls.search = 1
            /\ calls.search > 0 => calls.embed = 1
            /\ (calls.reviewed # <<>> /\ calls.gen = 0) => calls.reviewed = <<"web">>)

\* a web-search hit is under review and no generation call was made
C19_Witness ==
    /\ state = "Reviewing"
    /\ candidate.name = "web"
    /\ calls = [embed |-> 1, search |-> 1, gen |-> 0, reviewed |-> <<>>]
    /\ Len(store) > 0

\* C20: a failure or timeout of a lookup provider is a miss: after a failed
\* embedding call the session is in Searching, after a failed web-search
\* call it is in Generating, in both cases without an error and without a
\* recipe or candidate; no step out of a lookup stage enters Failed or
\* sets error.
C20_LookupFailureIsAMiss ==
    /\ [][ (call_failed' /\ calls'.embed > calls.embed) =>
             (state' = "Searching" /\ error' = NoError /\ recipe' = NoRecipe) ]_vars
    /\ [][ (call_failed' /\ calls'.search > calls.search) =>
             (state' = "Generating" /\ error' = NoError /\ candidate' = NoRecipe) ]_vars
    /\ [][ (state \in {"CachingSemantic", "Searching"}) =>
             (state' # "Failed" /\ error' = NoError) ]_vars

\* the web search failed, the session is about to generate without an
\* error, and the recipes table holds a neighbour of the working set
C20_Witness ==
    /\ state = "Generating"
    /\ call_failed
    /\ calls = [embed |-> 1, search |-> 1, gen |-> 0, reviewed |-> <<>>]
    /\ SemanticFind(store, Embed(ingredients), difficulty, language) # 0
    /\ error = NoError

\* C21: from Reviewing with outcome invalid-fixable the session moves to
\* AwaitingApproval exactly when iteration_count < 3 and extra_count plus
\* the number of suggested extras is at most 2, and to
\* Failed(ExhaustedRetries) in every other case; so the acceptance of a
\* pending approval request exceeds neither budget.
C21_FixableBudgetGate ==
    /\ [][ (state = "Reviewing" /\ state' # "Reviewing" /\ review' = "fixable") =>
             /\ Cardinality(suggested') \in 1..2
             /\ state' = "AwaitingApproval" <=>
                    (iteration_count < 3 /\ extra_count + Cardinality(suggested') <= 2)
             /\ state' = "AwaitingApproval" => pending' = suggested'
             /\ state' # "AwaitingApproval" =>
                    (state' = "Failed" /\ error' = "ExhaustedRetries") ]_vars
    /\ [](state = "AwaitingApproval" =>
             /\ iteration_count + 1 <= 3
             /\ extra_count + Cardinality(pending) <= 2)

\* a fixable review with iterations left ended the session because the
\* suggested extras did not fit the extra budget
C21_Witness ==
    /\ state = "Failed"
    /\ error = "ExhaustedRetries"
    /\ review = "fixable"
    /\ iteration_count < 3
    /\ extra_count = 1
    /\ Cardinality(suggested) = 2

\* the user's decision on a pending approval request, and which one it is
C22_Decision == state = "AwaitingApproval" /\ state' \notin {"AwaitingApproval", "Idle"}

C22_IsReject == rejected_combinations' # rejected_combinations

\* a session in which a decision was made stays out of the validation and
\* lookup stages
C22_NoReturn ==
    [][ ((approved_extras # {} \/ rejected_combinations # {}) /\ sid' = sid) =>
          state' \notin {"Validating", "Caching", "CachingSemantic", "Searching"} ]_vars

C23_Reject ==
    /\ state = "AwaitingApproval"
    /\ state' \notin {"AwaitingApproval", "Idle"}
    /\ approved_extras' = approved_extras

\* C23: a reject decision adds the rejected combination to
\* rejected_combinations and leaves the working set, extra_count and
\* original_ingredients unchanged; original_ingredients keeps the value it
\* received at validation in every later state of the session, also after
\* approvals.
C23_RejectFrame ==
    /\ [][ C23_Reject =>
             /\ pending \notin rejected_combinations
             /\ rejected_combinations' = rejected_combinations \cup {pending}
             /\ UNCHANGED <<ingredients, extra_count, original_ingredients>> ]_vars
    /\ [][ (sid' = sid /\ state # "Validating") =>
             original_ingredients' = original_ingredients ]_vars
    /\ []( ( /\ request.kind = "generate"
             /\ state # "Validating"
             /\ error # "ValidationError" ) =>
           original_ingredients = FilterDefaults(NormalizeAll(request.ingredients)) )

\* after a rejection and a later approval the working set has grown and
\* the snapshot is still the validated input
C23_Witness ==
    /\ state = "Reviewing"
    /\ request.kind = "generate"
    /\ rejected_combinations # {}
    /\ approved_extras # {}
    /\ approved_extras \subseteq ingredients
    /\ original_ingredients = FilterDefaults(NormalizeAll(request.ingredients))
    /\ original_ingredients # ingredients

\* C24: Validating and Caching are each entered exactly once per session,
\* also across suspension for approval: the suspended session keeps its
\* counters, ingredient sets and rejected combinations, the decision
\* resumes it from AwaitingApproval, and no validation, cache lookup or web
\* search is executed again.
C24_StagesEnteredOnce ==
    /\ [][ (state' = "Validating" /\ state # "Validating") =>
             (sid' = sid + 1 /\ state \in Terminal \cup {"Idle"}) ]_vars
    /\ [][ (state' = "Caching" /\ state # "Caching") =>
             (sid' = sid /\ state = "Validating") ]_vars
    /\ [][ (state = "AwaitingApproval" /\ state' = "AwaitingApproval") =>
             UNCHANGED <<sid, sessionVars>> ]_vars
    /\ [][ C22_Decision =>
             /\ sid' = sid
             /\ UNCHANGED <<request, difficulty, language, original_ingredients,
                            extra_ingredients_proposed, offered, calls, recipe>>
             /\ ingredients \subseteq ingredients'
             /\ rejected_combinations \subseteq rejected_combinations'
             /\ extra_count' >= extra_count
             /\ iteration_count' = iteration_count + 1 ]_vars
    /\ [][ (offered # <<>> /\ sid' = sid) =>
             /\ state' \notin {"Validating", "Caching", "CachingSemantic", "Searching"}
             /\ calls'.embed = calls.embed
             /\ calls'.search = calls.search ]_vars
    /\ [](calls.embed <= 1 /\ calls.search <= 1)

\* a /generate session went through both lookups once, was suspended,
\* resumed by an approval and ended in success
C24_Witness ==
    /\ state = "Success"
    /\ request.kind = "generate"
    /\ source = "generate"
    /\ approved_extras # {}
    /\ rejected_combinations # {}
    /\ calls.embed = 1
    /\ calls.search = 1

\* a call of GenerationProvider that failed or timed out
C25_FailedCall ==
    /\ state = "Generating"
    /\ calls'.gen = calls.gen + 1
    /\ call_failed'

\* each failed generation call counts against iteration_count, the budget
\* the decisions count against, and the call that finds it used up ends
\* the session
C25_SameBudget ==
    /\ [][ C25_FailedCall =>
             IF iteration_count < MaxIterations
             THEN /\ iteration_count' = iteration_count + 1
                  /\ state' = "Generating"
                  /\ UNCHANGED <<extra_count, ingredients, error>>
             ELSE /\ state' = "Failed"
                  /\ error' = "ExhaustedRetries" ]_vars
    /\ [](calls.gen <= iteration_count + 1)

C26_ModifyStartsAtGenerating ==
    /\ [][ (sid' # sid /\ request'.kind = "modify") =>
             /\ state' = "Generating"
             /\ ingredients' = Range(request'.ingredients)
                                 \cup Range(request'.new_ingredients)
             /\ calls' = NoCalls
             /\ iteration_count' = 0
             /\ extra_count' = 0 ]_vars
    /\ [](request.kind = "modify" =>
             /\ state \notin {"Validating", "Caching", "CachingSemantic", "Searching"}
             /\ calls.embed = 0
             /\ calls.search = 0
             /\ source \in {"", "generate"}
             /\ Len(calls.reviewed) <= calls.gen
             /\ \A i \in 1..Len(calls.reviewed) : calls.reviewed[i] = "generate"
             /\ iteration_count <= MaxIterations
             /\ extra_count <= MaxExtras
             /\ state = "AwaitingApproval" =>
                    (iteration_count < MaxIterations
                     /\ extra_count + Cardinality(pending) <= MaxExtras)
             /\ state = "Success" =>
                    (review = "valid" /\ ReviewPasses(recipe, ingredients)))

\* a /modify session whose merged set holds a pantry item succeeded after
\* an approved extra
C26_Witness ==
    /\ request.kind = "modify"
    /\ state = "Success"
    /\ approved_extras # {}
    /\ "salt" \in original_ingredients
    /\ calls.gen = 2

\* the records a step appended to the logs table
C27_Appended == { logs'[i] : i \in (Len(logs) + 1)..Len(logs') }

\* a provider call of the current stage that failed or timed out
C27_CallFailed ==
    /\ calls'.embed + calls'.search + calls'.gen
            = calls.embed + calls.search + calls.gen + 1
    /\ call_failed'

\* C27: the log store is append-only and complete for failures: every
\* session that ends in Failed and every failed or timed-out call of the
\* embedding, search or generation provider appends at least one LogRecord
\* with the session's request id, and no step removes or changes a record.
C27_LogAppendOnlyComplete ==
    /\ [][ /\ Len(logs') >= Len(logs)
           /\ SubSeq(logs', 1, Len(logs)) = logs ]_vars
    /\ [][ (state' = "Failed" /\ state # "Failed") =>
             \E r \in C27_Appended :
                 r.request_id = sid /\ r.error_kind = error' ]_vars
    /\ [][ C27_CallFailed =>
             \E r \in C27_Appended :
                 /\ r.request_id = sid
                 /\ r.error_kind \in {"SearchError", "GenerationError"} ]_vars
    /\ [](state = "Failed" =>
             \E i \in 1..Len(logs) :
                 logs[i].request_id = sid /\ logs[i].error_kind = error)

\* the second session failed after failures of all three providers, and
\* the table still holds the first session's records
C27_Witness ==
    /\ sid = 2
    /\ state = "Failed"
    /\ error = "ExhaustedRetries"
    /\ \E i \in 1..Len(logs) : logs[i].request_id = 1
    /\ Cardinality({ i \in 1..Len(logs) :
                       logs[i].request_id = 2 /\ logs[i].error_kind = "SearchError" }) = 2
    /\ \E i \in 1..Len(logs) :
           logs[i].request_id = 2 /\ logs[i].error_kind = "GenerationError"

\* lower case of the letters a request may carry
C28_Lower(raw) ==
    IF raw \in {"Egg", "EGG"} THEN "egg"
    ELSE IF raw = "Milk" THEN "milk" ELSE raw

\* two ingredient lists differ only in order, letter case or duplicates
C28_SameIngredients(a, b) ==
    { C28_Lower(a[i]) : i \in 1..Len(a) } = { C28_Lower(b[i]) : i \in 1..Len(b) }

\* the record was written for the request's ingredients, difficulty and
\* language
C28_WrittenFor(rec, r) ==
    /\ C28_SameIngredients(rec.sent, r.ingredients)
    /\ rec.key.difficulty = r.difficulty
    /\ rec.key.lang = r.lang

C29_WriteFailed(w) ==
    /\ writer[w].stage \in {"recipe", "embedding"}
    /\ writer'[w].stage = "failed"

\* C29: a store write failure during approved feedback is logged as a
\* PersistenceError and fails nothing the user saw: the session, its
\* recipe and its response stay as they were, a session in terminal
\* success stays there, and the recipes table holds no partial record for
\* the key.
C29_PersistenceErrorHarmless ==
    /\ [][ \A w \in Writers : C29_WriteFailed(w) =>
             /\ \E i \in (Len(logs) + 1)..Len(logs') :
                    /\ logs'[i].error_kind = "PersistenceError"
                    /\ logs'[i].request_id = FeedbackRequestId(w)
             /\ SubSeq(logs', 1, Len(logs)) = logs
             /\ UNCHANGED <<sid, sessionVars, store, ui_recipe>>
             /\ slot'[KeyOfBody(writer[w].body)] = EmptyRow ]_vars
    /\ [](\A key \in FeedbackKeys :
             slot[key] # EmptyRow =>
                \E w \in Writers :
                    /\ writer[w].stage \in {"recipe", "embedding"}
                    /\ KeyOfBody(writer[w].body) = key)
    /\ [](\A i \in 1..Len(store) :
             /\ store[i].approved
             /\ store[i].recipe # NoRecipe
             /\ store[i].sent # <<>>
             /\ store[i].key = FeedbackKey(store[i].sent, store[i].key.difficulty,
                                           store[i].key.lang)
             /\ store[i].embedding = Embed(store[i].key.ingredients))
    /\ [][ (state = "Success" /\ sid' = sid) =>
             (state' = "Success" /\ recipe' = recipe /\ error' = error) ]_vars

\* a session was served a recipe, the approved feedback for its key then
\* failed in the store, and the session is still in success with the
\* failure logged and no row left behind
C29_Witness ==
    /\ state = "Success"
    /\ recipe # NoRecipe
    /\ \E w \in Writers :
          /\ writer[w].stage = "failed"
          /\ KeyOfBody(writer[w].body) = last_hit.key
          /\ writer[w].began_at >= last_hit.at
          /\ slot[KeyOfBody(writer[w].body)] = EmptyRow
          /\ \E i \in 1..Len(logs) :
                /\ logs[i].error_kind = "PersistenceError"
                /\ logs[i].request_id = FeedbackRequestId(w)
    /\ Len(store) = 1

\* C30: in the generate page a change of the UI language writes only the
\* field lang of the shared agent state: the effect calls setState only
\* while state.lang differs from the selected language, and the state it
\* writes has the ingredients, difficulty, recipe, error and counters the
\* shared state has at the moment of the write, also when the backend
\* updated the shared state after the render that captured state.
C30_LanguageSyncWritesOnlyLang ==
    [][ wrote' =>
          /\ rendered.state.lang # rendered.language
          /\ shared'.lang = rendered.language
          /\ shared' = [shared EXCEPT !.lang = rendered.language] ]_vars

====
